---- MODULE Spec2Model ----
(***************************************************************************)
(* A model of leosacpy/utils.py: the project-root locator, the docker      *)
(* client factories, assert_isinstance, LogMixin, AWAIT and pretty_dict.   *)
(*                                                                         *)
(* Text is a sequence of one-character strings; the empty string '' is the *)
(* empty sequence.  An absolute path is the sequence of its components     *)
(* after the root "/": "/" is <<"/">>, "/a/b" is <<"/", "a", "b">>.        *)
(***************************************************************************)
EXTENDS Integers, Sequences, FiniteSets, TLC

VARIABLES
    \* ---- guess_root_dir and the filesystem it probes
    cwd,        \* the process's current working directory (an absolute path)
    dotgit,     \* per directory: what its '.git' entry is: "none", "file", "dir"
    rpc,        \* position in guess_root_dir: "idle", "loop", "done"
    prev,       \* local prev
    test,       \* local test
    probes,     \* the directories handed to os.path.isdir, in order
    result,     \* the value guess_root_dir returned
    \* ---- the docker client factories
    env,        \* the environment's DOCKER_HOST ("" when unset)
    handles,    \* every client object constructed so far; its index is its identity
    returned,   \* the identities the factory calls returned, in call order
    \* ---- assert_isinstance
    debugMode,  \* the interpreter's __debug__ (FALSE under python -O)
    apc,        \* "idle", "called", "done"
    aobj,       \* argument obj
    atypes,     \* argument types
    aoutcome,   \* how the call ended
    \* ---- LogMixin and the logging module
    loggers,    \* logging's registry: the logger names, in creation order; a
                \* logger's index is its identity
    held,       \* per instance: the logger its logger property last returned (0: none)
    logRecords, \* the records emitted so far
    lpc,        \* log_and_raise: 0 when idle, else the index of the next statement
    lself,      \* log_and_raise: self
    letype,     \* log_and_raise: etype
    largs,      \* log_and_raise: args
    le,         \* log_and_raise: local e
    lexc,       \* the exception in flight out of log_and_raise
    lmark,      \* Len(logRecords) when the call began
    loutcome,   \* how the call ended, as its caller sees it
    \* ---- AWAIT and the event loop
    loopRunning,    \* loop.is_running()
    loopStopping,   \* loop.stop() was called
    bgPending,      \* other callbacks scheduled on the loop
    comp,           \* the computation handed to AWAIT: steps left and what it ends with
    fut,            \* the future the loop runs it as
    wpc,            \* "idle", "running", "done"
    wresult,        \* how AWAIT ended, as its caller sees it
    \* ---- pretty_dict
    ppc,        \* "idle", "called", "body", "done"
    pd,         \* argument d
    pbody,      \* local s before highlighting
    pdumped,    \* whether json.dumps was called
    pout        \* the returned text

rootVars == <<cwd, dotgit, rpc, prev, test, probes, result>>
clientVars == <<env, handles, returned>>
assertVars == <<debugMode, apc, aobj, atypes, aoutcome>>

logVars == <<loggers, held, logRecords, lpc, lself, letype, largs, le, lexc, lmark, loutcome>>
awaitVars == <<loopRunning, loopStopping, bgPending, comp, fut, wpc, wresult>>

prettyVars == <<ppc, pd, pbody, pdumped, pout>>

vars == <<rootVars, clientVars, assertVars, logVars, awaitVars, prettyVars>>

notRoot == <<clientVars, assertVars, logVars, awaitVars, prettyVars>>
notClient == <<rootVars, assertVars, logVars, awaitVars, prettyVars>>
notAssert == <<rootVars, clientVars, logVars, awaitVars, prettyVars>>
notLog == <<rootVars, clientVars, assertVars, awaitVars, prettyVars>>
notAwait == <<rootVars, clientVars, assertVars, logVars, prettyVars>>
notPretty == <<rootVars, clientVars, assertVars, logVars, awaitVars>>

----------------------------------------------------------------------------
(* Bounds *)

MaxDepth == 2
MaxMarkers == 2
MaxClients == 3
MaxRecords == 2
MaxSteps == 2
MaxBackground == 2
MaxStrLen == 2
MaxNest == 2

----------------------------------------------------------------------------
(* The filesystem and os.path *)

Names == {"a", "b"}

RootPath == <<"/">>

\* the spine "/", "/a", "/a/a", ... of n components
RECURSIVE Spine(_)
Spine(n) == IF n = 0 THEN RootPath ELSE Append(Spine(n - 1), "a")

\* the tree: every directory of the spine above MaxDepth holds the children
\* "a" and "b"
Dirs == {RootPath} \cup {Append(Spine(n), c) : n \in 0..(MaxDepth - 1), c \in Names}

\* Python's None, as a value no path equals
None == <<"None">>

\* os.path.abspath(os.path.join(p, os.pardir)): the parent; "/" is its own parent
Parent(p) == IF Len(p) <= 1 THEN RootPath ELSE SubSeq(p, 1, Len(p) - 1)

\* p is d or lies beneath d
IsAncestorOrSelf(d, p) == Len(d) <= Len(p) /\ SubSeq(p, 1, Len(d)) = d

Ancestors(p) == {d \in Dirs : IsAncestorOrSelf(d, p)}

\* os.path.exists in place of isdir: a '.git' file counts too
IsdirAnyEntry(fs, p) == fs[p] # "none"

\* os.path.isdir(os.path.join(p, '.git')): the entry exists and is a directory
Isdir(fs, p) == fs[p] = "dir"

\* while True
LoopGuardAlways(pv, t) == TRUE

\* a walk that stops on reaching "/" instead of after probing it
LoopGuardStopAtRoot(pv, t) == pv # t /\ t # RootPath

\* while prev != test
LoopGuard(pv, t) == pv # t

\* the probe log keeps more entries than any walk of this tree makes
ProbeLogSize == MaxDepth + 3

Markers(fs) == {d \in Dirs : fs[d] # "none"}

----------------------------------------------------------------------------
(* The docker client factories *)

\* base_url='unix://var/run/docker.sock'
SocketUrl == "unix://var/run/docker.sock"

\* values DOCKER_HOST takes in the environment; "" is unset
EnvValues == {"", "tcp://10.0.0.5:2375", "unix:///run/user/1000/docker.sock"}

\* docker.DockerClient(base_url=url), docker.APIClient(base_url=url): a new
\* object, open, bound to url
Construct(hs, kind, url) ==
    Append(hs, [kind |-> kind, base_url |-> url, closedBy |-> "nobody"])

ExistingOfKind(hs, kind) == {i \in 1..Len(hs) : hs[i].kind = kind}

\* a factory that keeps one client per kind and hands it out again
FactoryCached(hs, kind) ==
    IF ExistingOfKind(hs, kind) # {}
    THEN [handles |-> hs, ret |-> CHOOSE i \in ExistingOfKind(hs, kind) : TRUE]
    ELSE [handles |-> Construct(hs, kind, SocketUrl), ret |-> Len(hs) + 1]

\* client = docker.<kind>(base_url='unix://var/run/docker.sock'); return client
Factory(hs, kind) ==
    [handles |-> Construct(hs, kind, SocketUrl), ret |-> Len(hs) + 1]

----------------------------------------------------------------------------
(* assert_isinstance *)

NoObject == [type |-> "none", repr |-> ""]

NoOutcome == [kind |-> "none", value |-> <<>>]

\* the objects handed in: their runtime type and their str()
Objects ==
    { [type |-> "int", repr |-> "5"],
      [type |-> "bool", repr |-> "True"],
      [type |-> "str", repr |-> "five"],
      [type |-> "NoneType", repr |-> "None"],
      [type |-> "Path", repr |-> "/a"] }

\* the classes and their bases, up to object
Mro(t) ==
    CASE t = "bool" -> {"bool", "int", "object"}
      [] t = "int" -> {"int", "object"}
      [] t = "str" -> {"str", "object"}
      [] t = "NoneType" -> {"NoneType", "object"}
      [] t = "Path" -> {"Path", "object"}
      [] OTHER -> {"object"}

\* the types argument: a class is the one-element sequence, a tuple of
\* classes the sequence of its members
TypeArgs ==
    { <<"int">>, <<"str">>, <<"bool">>, <<"object">>, <<"Path">>,
      <<"int", "str">>, <<"str", "NoneType">>, <<>> }

\* isinstance(obj, types): the object's class or one of its bases is among types
IsInstance(obj, types) == \E i \in 1..Len(types) : types[i] \in Mro(obj.type)

\* '{} is not a {}'.format(obj, types)
AssertMessage(obj, types) == <<obj.repr, " is not a ", types>>

Returned == [kind |-> "returned", value |-> <<"None">>]

\* assert (cond, msg): a non-empty tuple, never false
AssertOutcomeTuple(dbg, obj, types) == Returned

\* assert isinstance(obj, types), msg: compiled away when __debug__ is false
AssertOutcome(dbg, obj, types) ==
    IF dbg /\ ~IsInstance(obj, types)
    THEN [kind |-> "AssertionError", value |-> AssertMessage(obj, types)]
    ELSE Returned

----------------------------------------------------------------------------
(* LogMixin *)

\* __name__ in leosacpy/utils.py
ModuleName == "leosacpy.utils"

\* the classes composing LogMixin: the module each is defined in and its __name__
Classes ==
    { [module |-> "leosacpy.tasks", name |-> "Builder"],
      [module |-> "leosacpy.tasks", name |-> "Runner"],
      [module |-> "plugins.extra", name |-> "Runner"] }

Instances ==
    { [cls |-> c, n |-> 1] : c \in Classes }
    \cup { [cls |-> [module |-> "leosacpy.tasks", name |-> "Builder"], n |-> 2] }

\* sep.join(parts)
RECURSIVE Join(_, _)
Join(sep, parts) ==
    IF parts = <<>> THEN <<>>
    ELSE IF Len(parts) = 1 THEN <<parts[1]>>
    ELSE <<parts[1], sep>> \o Join(sep, Tail(parts))

\* the class name left out of the name
LoggerNameModuleOnly(inst) == Join(".", <<ModuleName>>)

\* name = '.'.join([__name__, self.__class__.__name__])
LoggerName(inst) == Join(".", <<ModuleName, inst.cls.name>>)

IndexOf(seq, x) == CHOOSE i \in 1..Len(seq) : seq[i] = x

Has(seq, x) == \E i \in 1..Len(seq) : seq[i] = x

\* logging.getLogger(name): the logger registered under name, created on first use
GetLoggerRegistry(reg, name) == IF Has(reg, name) THEN reg ELSE Append(reg, name)

GetLoggerId(reg, name) == IF Has(reg, name) THEN IndexOf(reg, name) ELSE Len(reg) + 1

NoExc == [kind |-> "none", args |-> <<>>]

ErrorKinds == {"ValueError", "RuntimeError"}

ArgLists == {<<>>, <<"boom">>, <<"disk", "full">>}

\* etype(*args)
MakeExc(etype, args) == [kind |-> etype, args |-> args]

\* repr of the members of a tuple of strings
RECURSIVE ReprItems(_)
ReprItems(args) ==
    IF args = <<>> THEN <<>>
    ELSE IF Len(args) = 1 THEN <<"'", args[1], "'">>
    ELSE <<"'", args[1], "'", ", ">> \o ReprItems(Tail(args))

\* str(e): '' without arguments, the argument's str with one, the tuple's
\* repr with more
StrOfExc(e) ==
    IF Len(e.args) = 0 THEN <<>>
    ELSE IF Len(e.args) = 1 THEN <<e.args[1]>>
    ELSE <<"(">> \o ReprItems(e.args) \o <<")">>

\* 'An error occurred: {}'.format(e)
ErrorMessage(e) == <<"An error occurred: ">> \o StrOfExc(e)

\* the raise placed before the logging call
LogAndRaiseBodyRaiseFirst == <<"construct", "raise", "log">>

\* the statements of log_and_raise, in order
LogAndRaiseBody == <<"construct", "log", "raise">>

----------------------------------------------------------------------------
(* AWAIT *)

NoResult == [kind |-> "none", payload |-> ""]

\* what a computation ends with: a value it yields or an error it raises
Endings ==
    { [kind |-> "value", payload |-> "V1"],
      [kind |-> "value", payload |-> "None"],
      [kind |-> "error", payload |-> "E1"],
      [kind |-> "error", payload |-> "CancelledError"] }

NoComp == [steps |-> 0, ending |-> NoResult]

NoFuture == [done |-> FALSE, remaining |-> 0, outcome |-> NoResult]

\* loop.run_until_complete(future) once run_forever has come back: the
\* future's result, or its exception raised
RunUntilCompleteResult(f) ==
    IF f.done THEN f.outcome
    ELSE [kind |-> "error", payload |-> "RuntimeError"]

\* the return keyword left out: the value is dropped, an error still propagates
AwaitNoReturn(f) ==
    IF RunUntilCompleteResult(f).kind = "value"
    THEN [kind |-> "value", payload |-> "None"]
    ELSE RunUntilCompleteResult(f)

\* return loop.run_until_complete(call)
AWAIT(f) == RunUntilCompleteResult(f)

----------------------------------------------------------------------------
(* pretty_dict: the values, json.dumps and pygments' highlight *)

\* A Python value: its type t, its text s (a string's characters, a number's
\* digits, an object's str()), and for a list or dict its members in order,
\* each with its key k (empty in a list).
Scalar(t, s) == [t |-> t, s |-> s, items |-> <<>>]

Member(k, v) == [k |-> k, val |-> v]

ListOf(vals) == [t |-> "list", s |-> <<>>, items |-> [i \in 1..Len(vals) |-> Member(<<>>, vals[i])]]

DictOf(keys, vals) == [t |-> "dict", s |-> <<>>, items |-> [i \in 1..Len(vals) |-> Member(keys[i], vals[i])]]

NoValue == Scalar("unset", <<>>)

StrAlphabet == {"a", "\"", "\n"}

RECURSIVE TextsOfLen(_)
TextsOfLen(n) ==
    IF n = 0 THEN {<<>>}
    ELSE {Append(t, c) : t \in TextsOfLen(n - 1), c \in StrAlphabet}

StrTexts == UNION {TextsOfLen(n) : n \in 0..MaxStrLen}

\* str, an instance of a subclass of str, int, None, bool, and an object
\* json cannot serialise natively (its s is its str())
Leaves ==
    { Scalar("str", <<"a">>), Scalar("str", <<"\"", "\n">>), Scalar("int", <<"1">>),
      Scalar("NoneType", <<>>), Scalar("bool", <<"T">>), Scalar("object", <<"p", "\"">>) }

\* the leaves that stand beside another member in a two-member container
PairLeaves == {Scalar("int", <<"1">>), Scalar("object", <<"p", "\"">>)}

\* the values nested at most n containers deep
RECURSIVE Values(_)
Values(n) ==
    IF n = 0 THEN Leaves
    ELSE Values(n - 1)
         \cup {ListOf(<<>>), DictOf(<<>>, <<>>)}
         \cup {ListOf(<<v>>) : v \in Values(n - 1)}
         \cup {DictOf(<< <<"a">> >>, <<v>>) : v \in Values(n - 1)}
         \cup {ListOf(<<v, w>>) : v \in PairLeaves, w \in Values(n - 1)}
         \cup {DictOf(<< <<"a">>, <<"b", "\"">> >>, <<v, w>>) : v \in Values(n - 1), w \in PairLeaves}

PrettyInputs ==
    {Scalar("str", t) : t \in StrTexts}
    \cup {Scalar("strsub", t) : t \in StrTexts}
    \cup Values(MaxNest)

\* isinstance(d, str)
IsString(d) == d.t \in {"str", "strsub"}

\* type(d) == str
TypeIsStr(d) == d.t = "str"

RECURSIVE Flatten(_)
Flatten(parts) == IF parts = <<>> THEN <<>> ELSE Head(parts) \o Flatten(Tail(parts))

\* json's string escaping of one character
EscapeChar(c) ==
    CASE c = "\"" -> <<"\\", "\"">>
      [] c = "\\" -> <<"\\", "\\">>
      [] c = "\n" -> <<"\\", "n">>
      [] OTHER -> <<c>>

\* a JSON string literal
JsonString(text) ==
    <<"\"">> \o Flatten([i \in 1..Len(text) |-> EscapeChar(text[i])]) \o <<"\"">>

Spaces(n) == [i \in 1..n |-> " "]

\* json.dumps(v, default=str, indent=indent), v standing level containers deep
RECURSIVE Dumps(_, _, _)
Dumps(v, indent, level) ==
    LET open == IF v.t = "list" THEN "[" ELSE "{"
        close == IF v.t = "list" THEN "]" ELSE "}"
        lead == <<"\n">> \o Spaces(indent * (level + 1))
        item(m) == (IF v.t = "dict" THEN JsonString(m.k) \o <<":", " ">> ELSE <<>>)
                   \o Dumps(m.val, indent, level + 1)
        body == Flatten([i \in 1..Len(v.items) |->
                   (IF i = 1 THEN <<>> ELSE <<",">>) \o lead \o item(v.items[i])])
    IN CASE v.t \in {"str", "strsub"} -> JsonString(v.s)
         [] v.t = "int" -> v.s
         [] v.t = "NoneType" -> <<"n", "u", "l", "l">>
         [] v.t = "bool" -> IF v.s = <<"T">> THEN <<"t", "r", "u", "e">>
                            ELSE <<"f", "a", "l", "s", "e">>
         [] v.t \in {"list", "dict"} ->
               IF v.items = <<>> THEN <<open, close>>
               ELSE <<open>> \o body \o <<"\n">> \o Spaces(indent * level) \o <<close>>
         \* default=str: the object's str(), as a JSON string
         [] OTHER -> JsonString(v.s)

\* indent=2
DumpsIndentTwo(d) == Dumps(d, 2, 0)

\* json.dumps(d, default=str, indent=4)
JsonDumps(d) == Dumps(d, 4, 0)

\* if type(d) == str: s = d  else: s = json.dumps(d, default=str, indent=4)
PrettyBody(d) == IF TypeIsStr(d) THEN d.s ELSE JsonDumps(d)

PrettyDumped(d) == ~TypeIsStr(d)

(* pygments: Lexer.get_tokens, JsonLexer, TerminalFormatter(bg='dark') *)

RECURSIVE StripLeadingNl(_)
StripLeadingNl(t) == IF t # <<>> /\ Head(t) = "\n" THEN StripLeadingNl(Tail(t)) ELSE t

RECURSIVE StripTrailingNl(_)
StripTrailingNl(t) ==
    IF t # <<>> /\ t[Len(t)] = "\n" THEN StripTrailingNl(SubSeq(t, 1, Len(t) - 1)) ELSE t

\* Lexer.get_tokens with stripnl and ensurenl (the defaults): line breaks at
\* both ends are stripped, then the text is made to end with one
Preprocess(t) ==
    LET u == StripTrailingNl(StripLeadingNl(t))
    IN IF u # <<>> /\ u[Len(u)] = "\n" THEN u ELSE Append(u, "\n")

CharClass(c) ==
    CASE c \in {" ", "\n"} -> "ws"
      [] c \in {"{", "}", "[", "]", ",", ":"} -> "punct"
      [] c \in {"0", "1", "2", "3", "4", "5", "6", "7", "8", "9", "-"} -> "number"
      [] c = "\"" -> "string"
      [] OTHER -> "word"

\* the index of the last character of the token that starts at i
RECURSIVE TokenEnd(_, _, _, _)
TokenEnd(t, i, j, cls) ==
    IF cls = "punct" THEN i
    ELSE IF cls = "string"
    THEN \* up to the closing quote, a backslash taking the next character with it
         IF j > Len(t) THEN Len(t)
         ELSE IF t[j] = "\"" THEN j
         ELSE IF t[j] = "\\" THEN TokenEnd(t, i, j + 2, cls)
         ELSE TokenEnd(t, i, j + 1, cls)
    ELSE \* a run of characters of one class
         IF j > Len(t) \/ CharClass(t[j]) # cls THEN j - 1
         ELSE TokenEnd(t, i, j + 1, cls)

\* JsonLexer: the text cut into tokens, none of its characters lost
RECURSIVE Lex(_, _)
Lex(t, i) ==
    IF i > Len(t) THEN <<>>
    ELSE LET cls == CharClass(t[i])
             e == TokenEnd(t, i, i + 1, cls)
         IN <<[type |-> cls, val |-> SubSeq(t, i, e)]>> \o Lex(t, e + 1)

Reset == "ESC[39;49;00m"

\* TerminalFormatter's dark colour of a token type; "" for none
Colour(type) ==
    CASE type = "ws" -> "ESC[90m"
      [] type = "string" -> "ESC[33m"
      [] type = "number" -> "ESC[94m"
      [] type = "word" -> "ESC[94m"
      [] OTHER -> ""

AnsiCodes == {Reset, "ESC[90m", "ESC[33m", "ESC[94m"}

\* TerminalFormatter.format on one token: each line of a coloured token is
\* wrapped in its colour and the reset, the line breaks written bare
RECURSIVE FormatValue(_, _, _)
FormatValue(colour, val, line) ==
    LET flush == IF line = <<>> THEN <<>> ELSE <<colour>> \o line \o <<Reset>>
    IN IF val = <<>> THEN flush
       ELSE IF Head(val) = "\n" THEN flush \o <<"\n">> \o FormatValue(colour, Tail(val), <<>>)
       ELSE FormatValue(colour, Tail(val), Append(line, Head(val)))

FormatToken(tok) ==
    IF Colour(tok.type) = "" THEN tok.val ELSE FormatValue(Colour(tok.type), tok.val, <<>>)

\* highlight(s, JsonLexer(), TerminalFormatter(bg='dark'))
Highlight(text) ==
    LET toks == Lex(Preprocess(text), 1)
    IN Flatten([i \in 1..Len(toks) |-> FormatToken(toks[i])])

\* the text with the terminal escape codes removed
IsPlain(c) == c \notin AnsiCodes
StripAnsi(text) == SelectSeq(text, IsPlain)

----------------------------------------------------------------------------
(* Initial state: an empty tree, the process standing at "/" *)

RootInit ==
    /\ cwd = RootPath
    /\ dotgit = [d \in Dirs |-> "none"]
    /\ rpc = "idle"
    /\ prev = None
    /\ test = None
    /\ probes = <<>>
    /\ result = None

ClientInit ==
    /\ env = ""
    /\ handles = <<>>
    /\ returned = <<>>

AssertInit ==
    /\ debugMode \in BOOLEAN
    /\ apc = "idle"
    /\ aobj = NoObject
    /\ atypes = <<>>
    /\ aoutcome = NoOutcome

LogInit ==
    /\ loggers = <<>>
    /\ held = [i \in Instances |-> 0]
    /\ logRecords = <<>>
    /\ lpc = 0
    /\ lself = CHOOSE i \in Instances : TRUE
    /\ letype = "none"
    /\ largs = <<>>
    /\ le = NoExc
    /\ lexc = NoExc
    /\ lmark = 0
    /\ loutcome = [kind |-> "none", exc |-> NoExc]

AwaitInit ==
    /\ loopRunning = FALSE
    /\ loopStopping = FALSE
    /\ bgPending = 0
    /\ comp = NoComp
    /\ fut = NoFuture
    /\ wpc = "idle"
    /\ wresult = NoResult

PrettyInit ==
    /\ ppc = "idle"
    /\ pd = NoValue
    /\ pbody = <<>>
    /\ pdumped = FALSE
    /\ pout = <<>>

Init == RootInit /\ ClientInit /\ AssertInit /\ LogInit /\ AwaitInit /\ PrettyInit

----------------------------------------------------------------------------
(* The environment of guess_root_dir: between calls the process changes    *)
(* directory and '.git' entries come and go.                               *)

Chdir(d) ==
    /\ rpc = "idle"
    /\ d # cwd
    /\ cwd' = d
    /\ UNCHANGED <<dotgit, rpc, prev, test, probes, result>>
    /\ UNCHANGED notRoot

MakeDotGit(d, kind) ==
    /\ rpc = "idle"
    /\ dotgit[d] = "none"
    /\ Cardinality(Markers(dotgit)) < MaxMarkers
    /\ dotgit' = [dotgit EXCEPT ![d] = kind]
    /\ UNCHANGED <<cwd, rpc, prev, test, probes, result>>
    /\ UNCHANGED notRoot

RemoveDotGit(d) ==
    /\ rpc = "idle"
    /\ dotgit[d] # "none"
    /\ dotgit' = [dotgit EXCEPT ![d] = "none"]
    /\ UNCHANGED <<cwd, rpc, prev, test, probes, result>>
    /\ UNCHANGED notRoot

(* guess_root_dir, one action per loop iteration *)

\* prev, test = None, os.path.abspath(os.path.curdir)
GuessStart ==
    /\ rpc = "idle"
    /\ rpc' = "loop"
    /\ prev' = None
    /\ test' = cwd
    /\ probes' = <<>>
    /\ result' = None
    /\ UNCHANGED <<cwd, dotgit>>
    /\ UNCHANGED notRoot

\* one pass through the loop body: the probe, then return or step upward
GuessProbe ==
    /\ rpc = "loop"
    /\ LoopGuard(prev, test)
    /\ probes' = IF Len(probes) < ProbeLogSize THEN Append(probes, test) ELSE probes
    /\ IF Isdir(dotgit, test)
       THEN /\ result' = test
            /\ rpc' = "done"
            /\ UNCHANGED <<prev, test>>
       ELSE /\ prev' = test
            /\ test' = Parent(test)
            /\ UNCHANGED <<rpc, result>>
    /\ UNCHANGED <<cwd, dotgit>>
    /\ UNCHANGED notRoot

\* the loop condition fails: return ''
GuessGiveUp ==
    /\ rpc = "loop"
    /\ ~LoopGuard(prev, test)
    /\ result' = <<>>
    /\ rpc' = "done"
    /\ UNCHANGED <<cwd, dotgit, prev, test, probes>>
    /\ UNCHANGED notRoot

\* the caller takes the result and the frame is gone; the process goes on
GuessDone ==
    /\ rpc = "done"
    /\ rpc' = "idle"
    /\ prev' = None
    /\ test' = None
    /\ probes' = <<>>
    /\ result' = None
    /\ UNCHANGED <<cwd, dotgit>>
    /\ UNCHANGED notRoot

GuessStep == GuessProbe \/ GuessGiveUp

RootNext ==
    \/ \E d \in Dirs : Chdir(d)
    \/ \E d \in Dirs, k \in {"file", "dir"} : MakeDotGit(d, k)
    \/ \E d \in Dirs : RemoveDotGit(d)
    \/ GuessStart
    \/ GuessProbe
    \/ GuessGiveUp
    \/ GuessDone

\* A started call keeps running: nothing in the loop blocks
SpecRoot == Init /\ [][RootNext]_vars /\ WF_vars(GuessStep)

----------------------------------------------------------------------------
(* guess_root_dir: claims *)

GitAncestors(p) == {d \in Ancestors(p) : dotgit[d] = "dir"}

\* the nearest ancestor-or-self of p holding a '.git' directory
Nearest(p) == CHOOSE d \in GitAncestors(p) : \A e \in GitAncestors(p) : Len(e) <= Len(d)

\* C1: when a '.git' directory exists beneath the working directory or one of
\* its ancestors, guess_root_dir returns the nearest such directory.
C1_NearestGitDir ==
    (rpc = "done" /\ GitAncestors(cwd) # {}) => result = Nearest(cwd)

\* a call returned although a nearer directory holds a '.git' that is a file,
\* and a farther one a '.git' directory
C1_Witness ==
    /\ rpc = "done"
    /\ Len(cwd) = 3
    /\ dotgit[cwd] = "file"
    /\ dotgit[Parent(cwd)] = "dir"
    /\ result = Parent(cwd)

\* C2: with no '.git' directory at the working directory or any ancestor, a
\* started call terminates and returns the empty string.
C2_TerminatesEmpty ==
    (rpc = "loop" /\ GitAncestors(cwd) = {}) ~> (rpc = "done" /\ result = <<>>)

C2_Witness ==
    /\ rpc = "done"
    /\ GitAncestors(cwd) = {}
    /\ Len(cwd) = 3
    /\ result = <<>>

UpwardFrom(ps, start) ==
    /\ ps # <<>> => ps[1] = start
    /\ \A i \in 1..(Len(ps) - 1) : ps[i + 1] = Parent(ps[i]) /\ ps[i + 1] # ps[i]

\* C10: candidates are probed in strict upward order from the working
\* directory, each at most once; the root is probed before giving up, so a
\* '.git' directly beneath "/" yields "/", and '' is returned only after every
\* directory up to and including "/" was probed without a match.
C10_ProbeOrder ==
    /\ rpc # "idle" => UpwardFrom(probes, cwd)
    /\ \A i, j \in 1..Len(probes) : probes[i] = probes[j] => i = j
    /\ (rpc = "done" /\ GitAncestors(cwd) = {RootPath}) => result = RootPath
    /\ (rpc = "done" /\ result = <<>>) =>
          /\ {probes[i] : i \in 1..Len(probes)} = Ancestors(cwd)
          /\ GitAncestors(cwd) = {}

C10_Witness ==
    /\ rpc = "done"
    /\ Len(cwd) = 3
    /\ GitAncestors(cwd) = {RootPath}
    /\ result = RootPath
    /\ Len(probes) = 3

----------------------------------------------------------------------------
(* The docker client factories: actions *)

\* the environment changes DOCKER_HOST
SetDockerHost(v) ==
    /\ v # env
    /\ env' = v
    /\ UNCHANGED <<handles, returned>>
    /\ UNCHANGED notClient

get_docker_client ==
    /\ Len(returned) < MaxClients
    /\ LET r == Factory(handles, "DockerClient")
       IN /\ handles' = r.handles
          /\ returned' = Append(returned, r.ret)
    /\ UNCHANGED env
    /\ UNCHANGED notClient

get_docker_api_client ==
    /\ Len(returned) < MaxClients
    /\ LET r == Factory(handles, "APIClient")
       IN /\ handles' = r.handles
          /\ returned' = Append(returned, r.ret)
    /\ UNCHANGED env
    /\ UNCHANGED notClient

\* a caller closes a client it was given
CallerClose(i) ==
    /\ handles[i].closedBy = "nobody"
    /\ handles' = [handles EXCEPT ![i].closedBy = "caller"]
    /\ UNCHANGED <<env, returned>>
    /\ UNCHANGED notClient

ClientNext ==
    \/ \E v \in EnvValues : SetDockerHost(v)
    \/ get_docker_client
    \/ get_docker_api_client
    \/ \E i \in 1..Len(handles) : CallerClose(i)

SpecClient == Init /\ [][ClientNext]_vars

\* C9: every factory call returns a client distinct from every client returned
\* before, bound to the fixed socket address whatever DOCKER_HOST says, and no
\* client is ever closed by a factory.
C9_FreshFixedUnclosed ==
    /\ \A i, j \in 1..Len(returned) : returned[i] = returned[j] => i = j
    /\ \A i \in 1..Len(returned) :
          /\ returned[i] \in 1..Len(handles)
          /\ handles[returned[i]].base_url = SocketUrl
    /\ \A i \in 1..Len(handles) : handles[i].closedBy \in {"nobody", "caller"}
    /\ Len(handles) = Len(returned)

\* two clients of the same kind were handed out with DOCKER_HOST pointing
\* elsewhere, the first of them closed by its caller since
C9_Witness ==
    /\ Len(returned) >= 2
    /\ env = "tcp://10.0.0.5:2375"
    /\ handles[returned[1]].kind = handles[returned[2]].kind
    /\ handles[returned[1]].closedBy = "caller"
    /\ handles[returned[2]].closedBy = "nobody"

----------------------------------------------------------------------------
(* assert_isinstance: actions *)

AssertCall(obj, types) ==
    /\ apc = "idle"
    /\ apc' = "called"
    /\ aobj' = obj
    /\ atypes' = types
    /\ aoutcome' = NoOutcome
    /\ UNCHANGED debugMode
    /\ UNCHANGED notAssert

\* the body runs
AssertExec ==
    /\ apc = "called"
    /\ apc' = "done"
    /\ aoutcome' = AssertOutcome(debugMode, aobj, atypes)
    /\ UNCHANGED <<debugMode, aobj, atypes>>
    /\ UNCHANGED notAssert

AssertDone ==
    /\ apc = "done"
    /\ apc' = "idle"
    /\ aobj' = NoObject
    /\ atypes' = <<>>
    /\ aoutcome' = NoOutcome
    /\ UNCHANGED debugMode
    /\ UNCHANGED notAssert

AssertNext ==
    \/ \E o \in Objects, t \in TypeArgs : AssertCall(o, t)
    \/ AssertExec
    \/ AssertDone

SpecAssert == Init /\ [][AssertNext]_vars

\* C7 as stated: the call raises AssertionError when obj is no instance of
\* types, and otherwise returns normally, with nothing else changed.
C7_AsStated ==
    apc = "done" =>
        /\ ~IsInstance(aobj, atypes) => aoutcome.kind = "AssertionError"
        /\ IsInstance(aobj, atypes) => aoutcome = Returned

\* C7 amended: with assertions enabled the call raises AssertionError exactly
\* when obj is no instance of types and otherwise returns None; with
\* assertions disabled it returns None always.
C7_WhenAssertionsEnabled ==
    apc = "done" =>
        /\ (debugMode /\ ~IsInstance(aobj, atypes)) => aoutcome.kind = "AssertionError"
        /\ (~debugMode \/ IsInstance(aobj, atypes)) => aoutcome = Returned

\* 5 was checked against str with assertions enabled, and the call raised
C7_Witness ==
    /\ apc = "done"
    /\ debugMode
    /\ aobj.type = "int"
    /\ atypes = <<"str">>
    /\ aoutcome = [kind |-> "AssertionError", value |-> <<"5", " is not a ", <<"str">>>>]

----------------------------------------------------------------------------
(* LogMixin: actions *)

\* inst.logger, read by the code that owns inst
ReadLogger(inst) ==
    /\ lpc = 0
    /\ loggers' = GetLoggerRegistry(loggers, LoggerName(inst))
    /\ held' = [held EXCEPT ![inst] = GetLoggerId(loggers, LoggerName(inst))]
    /\ UNCHANGED <<logRecords, lpc, lself, letype, largs, le, lexc, lmark, loutcome>>
    /\ UNCHANGED notLog

\* inst.log_and_raise(etype, *args) is entered
LogAndRaiseCall(inst, etype, args) ==
    /\ lpc = 0
    /\ loutcome.kind = "none"
    /\ Len(logRecords) < MaxRecords
    /\ lpc' = 1
    /\ lself' = inst
    /\ letype' = etype
    /\ largs' = args
    /\ le' = NoExc
    /\ lexc' = NoExc
    /\ lmark' = Len(logRecords)
    /\ UNCHANGED <<loggers, held, logRecords, loutcome>>
    /\ UNCHANGED notLog

Running(stmt) ==
    /\ lpc \in 1..Len(LogAndRaiseBody)
    /\ lexc = NoExc
    /\ LogAndRaiseBody[lpc] = stmt

\* e = etype(*args)
LogAndRaiseConstruct ==
    /\ Running("construct")
    /\ le' = MakeExc(letype, largs)
    /\ lpc' = lpc + 1
    /\ UNCHANGED <<loggers, held, logRecords, lself, letype, largs, lexc, lmark, loutcome>>
    /\ UNCHANGED notLog

\* self.logger.error('An error occurred: {}'.format(e))
LogAndRaiseLog ==
    /\ Running("log")
    /\ loggers' = GetLoggerRegistry(loggers, LoggerName(lself))
    /\ logRecords' = Append(logRecords,
          [logger |-> GetLoggerId(loggers, LoggerName(lself)),
           level |-> "ERROR",
           msg |-> ErrorMessage(le)])
    /\ lpc' = lpc + 1
    /\ UNCHANGED <<held, lself, letype, largs, le, lexc, lmark, loutcome>>
    /\ UNCHANGED notLog

\* raise e
LogAndRaiseRaise ==
    /\ Running("raise")
    /\ lexc' = le
    /\ UNCHANGED <<loggers, held, logRecords, lpc, lself, letype, largs, le, lmark, loutcome>>
    /\ UNCHANGED notLog

\* control is back with the caller: with the exception in flight, or, had the
\* body run off its end, with a normal return
LogAndRaiseEnd ==
    /\ lpc # 0
    /\ loutcome.kind = "none"
    /\ lexc # NoExc \/ lpc > Len(LogAndRaiseBody)
    /\ loutcome' =
          IF lexc # NoExc THEN [kind |-> "raised", exc |-> lexc]
          ELSE [kind |-> "returned", exc |-> NoExc]
    /\ lpc' = 0
    /\ UNCHANGED <<loggers, held, logRecords, lself, letype, largs, le, lexc, lmark>>
    /\ UNCHANGED notLog

\* the caller has dealt with the error and goes on
LogAndRaiseHandled ==
    /\ lpc = 0
    /\ loutcome.kind # "none"
    /\ loutcome' = [kind |-> "none", exc |-> NoExc]
    /\ letype' = "none"
    /\ largs' = <<>>
    /\ le' = NoExc
    /\ lexc' = NoExc
    /\ lmark' = 0
    /\ UNCHANGED <<loggers, held, logRecords, lpc, lself>>
    /\ UNCHANGED notLog

LogNext ==
    \/ \E i \in Instances : ReadLogger(i)
    \/ \E i \in Instances, t \in ErrorKinds, a \in ArgLists : LogAndRaiseCall(i, t, a)
    \/ LogAndRaiseConstruct
    \/ LogAndRaiseLog
    \/ LogAndRaiseRaise
    \/ LogAndRaiseEnd
    \/ LogAndRaiseHandled

SpecLog == Init /\ [][LogNext]_vars

\* the records emitted since the running (or just ended) call began
RecordsOfCall == SubSeq(logRecords, lmark + 1, Len(logRecords))

\* C3: log_and_raise never returns normally; it raises the error of kind etype
\* built from args, and when the error is raised exactly one ERROR record,
\* carrying the error's str, has been emitted by the call.
C3_LogsOnceThenRaises ==
    /\ loutcome.kind # "returned"
    /\ loutcome.kind = "raised" => loutcome.exc = [kind |-> letype, args |-> largs]
    /\ (lexc # NoExc \/ loutcome.kind = "raised") =>
          /\ Len(RecordsOfCall) = 1
          /\ RecordsOfCall[1].level = "ERROR"
          /\ RecordsOfCall[1].msg = <<"An error occurred: ">> \o StrOfExc([kind |-> letype, args |-> largs])

C3_Witness ==
    /\ loutcome.kind = "raised"
    /\ loutcome.exc = [kind |-> "ValueError", args |-> <<"boom">>]
    /\ Len(logRecords) = lmark + 1
    /\ logRecords[Len(logRecords)].msg = <<"An error occurred: ">> \o <<"boom">>

SameLogger(i, j) == held[i] = held[j]

Fetched(i) == held[i] # 0

\* C8 as stated: the logger is the one registered under module name "." class
\* name; instances of two different classes hold different loggers, instances
\* of one class the same.
C8_AsStated ==
    \A i, j \in Instances :
        (Fetched(i) /\ Fetched(j)) =>
            /\ loggers[held[i]] = <<ModuleName, ".", i.cls.name>>
            /\ i.cls = j.cls => SameLogger(i, j)
            /\ i.cls # j.cls => ~SameLogger(i, j)

\* C8 amended: the logger is the one registered under module name "." class
\* name; instances of classes whose names differ hold different loggers,
\* instances of classes of one name (the same class or not) hold the same.
C8_ByClassName ==
    \A i, j \in Instances :
        (Fetched(i) /\ Fetched(j)) =>
            /\ loggers[held[i]] = <<ModuleName, ".", i.cls.name>>
            /\ i.cls.name = j.cls.name => SameLogger(i, j)
            /\ i.cls.name # j.cls.name => ~SameLogger(i, j)

\* two instances of Builder and one of each Runner have read their logger
C8_Witness ==
    /\ \A i \in Instances : Fetched(i)
    /\ \E i, j \in Instances : i.cls # j.cls /\ i.cls.name = j.cls.name /\ SameLogger(i, j)
    /\ \E i, j \in Instances : i # j /\ i.cls = j.cls /\ SameLogger(i, j)
    /\ \E i, j \in Instances : i.cls.name # j.cls.name /\ ~SameLogger(i, j)

----------------------------------------------------------------------------
(* AWAIT: actions *)

\* other code schedules a callback on the loop
ScheduleBackground ==
    /\ wpc = "idle"
    /\ bgPending < MaxBackground
    /\ bgPending' = bgPending + 1
    /\ UNCHANGED <<loopRunning, loopStopping, comp, fut, wpc, wresult>>
    /\ UNCHANGED notAwait

\* AWAIT(call, loop) on a loop that is not running: run_until_complete wraps
\* call in a future and starts the loop
AwaitCall(n, ending) ==
    /\ wpc = "idle"
    /\ ~loopRunning
    /\ wpc' = "running"
    /\ loopRunning' = TRUE
    /\ loopStopping' = FALSE
    /\ comp' = [steps |-> n, ending |-> ending]
    /\ fut' = [done |-> FALSE, remaining |-> n, outcome |-> NoResult]
    /\ wresult' = NoResult
    /\ UNCHANGED bgPending
    /\ UNCHANGED notAwait

\* one iteration of the loop runs the computation up to its next suspension;
\* when it ends, the future is done and its done-callback stops the loop
LoopRunComputation ==
    /\ wpc = "running"
    /\ ~loopStopping
    /\ ~fut.done
    /\ IF fut.remaining = 0
       THEN /\ fut' = [done |-> TRUE, remaining |-> 0, outcome |-> comp.ending]
            /\ loopStopping' = TRUE
       ELSE /\ fut' = [fut EXCEPT !.remaining = fut.remaining - 1]
            /\ UNCHANGED loopStopping
    /\ UNCHANGED <<loopRunning, bgPending, comp, wpc, wresult>>
    /\ UNCHANGED notAwait

\* one iteration of the loop runs another callback
LoopRunBackground ==
    /\ wpc = "running"
    /\ ~loopStopping
    /\ bgPending > 0
    /\ bgPending' = bgPending - 1
    /\ UNCHANGED <<loopRunning, loopStopping, comp, fut, wpc, wresult>>
    /\ UNCHANGED notAwait

\* the loop has stopped: run_until_complete comes back, and AWAIT with it
AwaitReturn ==
    /\ wpc = "running"
    /\ loopStopping
    /\ loopRunning' = FALSE
    /\ loopStopping' = FALSE
    /\ wresult' = AWAIT(fut)
    /\ wpc' = "done"
    /\ UNCHANGED <<bgPending, comp, fut>>
    /\ UNCHANGED notAwait

\* the caller goes on
AwaitDone ==
    /\ wpc = "done"
    /\ wpc' = "idle"
    /\ comp' = NoComp
    /\ fut' = NoFuture
    /\ wresult' = NoResult
    /\ UNCHANGED <<loopRunning, loopStopping, bgPending>>
    /\ UNCHANGED notAwait

AwaitNext ==
    \/ ScheduleBackground
    \/ \E n \in 0..MaxSteps, e \in Endings : AwaitCall(n, e)
    \/ LoopRunComputation
    \/ LoopRunBackground
    \/ AwaitReturn
    \/ AwaitDone

SpecAwait == Init /\ [][AwaitNext]_vars

\* C4: AWAIT comes back only once the computation has completed, and then
\* with exactly what it ended with: its value returned, or its error raised.
C4_ReturnsTheOutcome ==
    /\ wpc = "done" => (fut.done /\ fut.remaining = 0 /\ wresult = comp.ending)
    /\ wpc = "running" => wresult = NoResult

\* a computation that suspended twice and then raised: AWAIT raised its error
C4_Witness ==
    /\ wpc = "done"
    /\ comp.steps = 2
    /\ comp.ending = [kind |-> "error", payload |-> "E1"]
    /\ wresult = [kind |-> "error", payload |-> "E1"]

----------------------------------------------------------------------------
(* pretty_dict: actions *)

PrettyCall(d) ==
    /\ ppc = "idle"
    /\ ppc' = "called"
    /\ pd' = d
    /\ pbody' = <<>>
    /\ pdumped' = FALSE
    /\ pout' = <<>>
    /\ UNCHANGED notPretty

\* the if/else: s is d itself, or its JSON
PrettySerialize ==
    /\ ppc = "called"
    /\ ppc' = "body"
    /\ pbody' = PrettyBody(pd)
    /\ pdumped' = PrettyDumped(pd)
    /\ UNCHANGED <<pd, pout>>
    /\ UNCHANGED notPretty

\* s = highlight(s, ...); return s
PrettyHighlight ==
    /\ ppc = "body"
    /\ ppc' = "done"
    /\ pout' = Highlight(pbody)
    /\ UNCHANGED <<pd, pbody, pdumped>>
    /\ UNCHANGED notPretty

PrettyDone ==
    /\ ppc = "done"
    /\ ppc' = "idle"
    /\ pd' = NoValue
    /\ pbody' = <<>>
    /\ pdumped' = FALSE
    /\ pout' = <<>>
    /\ UNCHANGED notPretty

PrettyNext ==
    \/ \E d \in PrettyInputs : PrettyCall(d)
    \/ PrettySerialize
    \/ PrettyHighlight
    \/ PrettyDone

SpecPretty == Init /\ [][PrettyNext]_vars

\* C5: a string input is handed to the highlighter unchanged and never
\* serialised; every input that is not a string is serialised.
C5_StringsPassUnserialized ==
    ppc \in {"body", "done"} =>
        /\ IsString(pd) => (pbody = pd.s /\ ~pdumped)
        /\ ~IsString(pd) => pdumped

\* C6 as stated: for an input that is not a string, the returned text without
\* its escape codes is the four-space-indented JSON of the input.
C6_AsStated ==
    (ppc = "done" /\ ~IsString(pd)) => StripAnsi(pout) = Dumps(pd, 4, 0)

\* C6 amended: for an input that is not a string, the returned text without
\* its escape codes is the four-space-indented JSON of the input followed by
\* one line break.
C6_JsonThenNewline ==
    (ppc = "done" /\ ~IsString(pd)) => StripAnsi(pout) = Dumps(pd, 4, 0) \o <<"\n">>

\* a dict holding an object json cannot serialise natively came back:
\* indented, the object as its str(), coloured
C6_Witness ==
    /\ ppc = "done"
    /\ pd.t = "dict"
    /\ Len(pd.items) = 1
    /\ pd.items[1].val.t = "object"
    /\ pout # StripAnsi(pout)
    /\ StripAnsi(pout) = <<"{", "\n", " ", " ", " ", " ", "\"", "a", "\"", ":", " ",
                           "\"", "p", "\\", "\"", "\"", "\n", "}", "\n">>

====
